---- MODULE Spec2Model ----
(***************************************************************************)
(* Model of PBI_sales/generate_sales_data.py: five table generators        *)
(* (customers, products, dates, sales, quality metrics) and main(), which  *)
(* runs them in order and writes one CSV file per table.                   *)
(*                                                                         *)
(* Conventions                                                             *)
(*  - A nullable cell is a record [k, v]: Num(n) a number, Faker(kind, n)  *)
(*    a Faker text (identified by its provider and the position of the     *)
(*    Faker stream that produced it), None Python's None, NaN the float    *)
(*    nan.  Cells that are never null are plain integers or strings.       *)
(*  - Money is counted in cents, a Timestamp/date is its proleptic         *)
(*    Gregorian ordinal (datetime.toordinal; every Timestamp of the        *)
(*    program is at midnight), random.random() is counted in thousandths.  *)
(*  - The stdlib `random` generator is never seeded: each of its calls is  *)
(*    a nondeterministic choice.  numpy's generator is seeded (line 11):   *)
(*    its outputs are unknown but fixed, so the first run chooses them and *)
(*    records them on np_tape, and a second run replays the tape.  Faker is*)
(*    seeded too (line 10): its outputs are a function of the stream       *)
(*    position faker_pos.                                                  *)
(*  - Every action that draws takes the set E of the draws a specification *)
(*    explores; a draw not in E takes one fixed outcome of its range.      *)
(***************************************************************************)
EXTENDS Integers, Sequences, FiniteSets, TLC

VARIABLES pc, caller, args, rows, order_id, locals,
          customers_df, products_df, date_df, sales_df, quality_df,
          events, np_tape, np_pos, faker_pos, run, first_run

vars == <<pc, caller, args, rows, order_id, locals,
          customers_df, products_df, date_df, sales_df, quality_df,
          events, np_tape, np_pos, faker_pos, run, first_run>>

(***************************************************************************)
(* Bounds of the model                                                     *)
(***************************************************************************)
MaxCustomers == 6
MaxProducts == 3
MaxTransactions == 2
MaxSpan == 5

(***************************************************************************)
(* Cells                                                                   *)
(***************************************************************************)
Num(n) == [k |-> "num", v |-> n]
None == [k |-> "None", v |-> 0]
NaN == [k |-> "NaN", v |-> 0]
IsNone(x) == x.k = "None"
\* pandas isnull(): None, NaN and NaT are all missing values
IsNull(x) == x.k \in {"None", "NaN"}

\* float arithmetic of Python: an operand None raises TypeError, nan propagates
Raises(a, b) == IsNone(a) \/ IsNone(b)
Mul(a, b) == IF a.k = "NaN" \/ b.k = "NaN" THEN NaN ELSE Num(a.v * b.v)
Sub(a, b) == IF a.k = "NaN" \/ b.k = "NaN" THEN NaN ELSE Num(a.v - b.v)

\* round(x, 2) of the amount a/b cents
RoundDiv(a, b) == (2 * a + b) \div (2 * b)

Last(s) == s[Len(s)]
Range(s) == {s[j] : j \in 1..Len(s)}

(***************************************************************************)
(* Calendar (datetime / pandas Timestamp)                                  *)
(***************************************************************************)
IsLeap(y) == y % 4 = 0 /\ (y % 100 # 0 \/ y % 400 = 0)

DaysInMonth(y, m) ==
    IF m = 2 THEN (IF IsLeap(y) THEN 29 ELSE 28)
    ELSE IF m \in {4, 6, 9, 11} THEN 30 ELSE 31

RECURSIVE DaysBeforeMonth(_, _)
DaysBeforeMonth(y, m) ==
    IF m = 1 THEN 0 ELSE DaysBeforeMonth(y, m - 1) + DaysInMonth(y, m - 1)

DaysBeforeYear(y) ==
    (y - 1) * 365 + ((y - 1) \div 4) - ((y - 1) \div 100) + ((y - 1) \div 400)

\* date(y, m, d).toordinal()
Ymd2Ord(y, m, d) == DaysBeforeYear(y) + DaysBeforeMonth(y, m) + d

\* date.fromordinal(n) as <<year, month, day>> (datetime._ord2ymd)
Ord2Ymd(n0) ==
    LET n == n0 - 1
        n400 == n \div 146097
        r400 == n % 146097
        n100 == r400 \div 36524
        r100 == r400 % 36524
        n4 == r100 \div 1461
        r4 == r100 % 1461
        n1 == r4 \div 365
        r1 == r4 % 365
        year == n400 * 400 + 1 + n100 * 100 + n4 * 4 + n1
    IN  IF n1 = 4 \/ n100 = 4 THEN <<year - 1, 12, 31>>
        ELSE LET ly == IF n1 = 3 /\ (n4 # 24 \/ n100 = 3) THEN 4 ELSE 1
                 m0 == (r1 + 50) \div 32
                 month == IF DaysBeforeMonth(ly, m0) > r1 THEN m0 - 1 ELSE m0
             IN  <<year, month, r1 - DaysBeforeMonth(ly, month) + 1>>

\* date.weekday(): Monday is 0
Weekday(n) == (n + 6) % 7

\* the decimal digits of n, zero-padded to width w ('%Y', '%m', '%d')
RECURSIVE Digits(_, _)
Digits(n, w) == IF w = 0 THEN <<>> ELSE Append(Digits(n \div 10, w - 1), n % 10)

\* date.strftime('%Y%m%d')
Strftime_Ymd(n) ==
    LET ymd == Ord2Ymd(n) IN Digits(ymd[1], 4) \o Digits(ymd[2], 2) \o Digits(ymd[3], 2)

\* int(s) of a string of decimal digits
RECURSIVE ParseInt(_)
ParseInt(s) ==
    IF s = <<>> THEN 0 ELSE 10 * ParseInt(SubSeq(s, 1, Len(s) - 1)) + Last(s)

\* pd.date_range(start, end): every day of the inclusive range, ascending
date_range(start, end) == [j \in 1..(IF end >= start THEN end - start + 1 ELSE 0) |-> start + j - 1]

\* the defaults of generate_date_dimension, and the range of generate_quality_metrics
DefaultStart == Ymd2Ord(2022, 1, 1)
DefaultEnd == Ymd2Ord(2024, 12, 31)

(***************************************************************************)
(* generate_date_dimension                                                 *)
(***************************************************************************)
FiscalYear(year, month) == IF month < 7 THEN year ELSE year + 1

\* mutant: only Sunday is a weekend day
IsWeekendSunday(n) == IF Weekday(n) > 5 THEN 1 ELSE 0

IsWeekend(n) == IF Weekday(n) >= 5 THEN 1 ELSE 0

DateKey(n) == ParseInt(Strftime_Ymd(n))

\* date.strftime('%B') and date.strftime('%A')
MonthName(month) ==
    <<"January", "February", "March", "April", "May", "June", "July", "August",
      "September", "October", "November", "December">>[month]

WeekDayName(weekday) ==
    <<"Monday", "Tuesday", "Wednesday", "Thursday", "Friday", "Saturday", "Sunday">>[weekday + 1]

DateRecord(n) ==
    LET ymd == Ord2Ymd(n)
    IN  [DateKey |-> DateKey(n),
         Date |-> n,
         Year |-> ymd[1],
         Quarter |-> ((ymd[2] - 1) \div 3) + 1,
         Month |-> ymd[2],
         MonthName |-> MonthName(ymd[2]),
         WeekDay |-> Weekday(n) + 1,
         WeekDayName |-> WeekDayName(Weekday(n)),
         IsWeekend |-> IsWeekend(n),
         IsHoliday |-> 0,
         FiscalYear |-> FiscalYear(ymd[1], ymd[2]),
         FiscalQuarter |-> ((ymd[2] - 1) \div 3) + 1]

DateDimension(start, end) ==
    LET dates == date_range(start, end)
    IN  [j \in 1..Len(dates) |-> DateRecord(dates[j])]

(***************************************************************************)
(* Random sources                                                          *)
(***************************************************************************)
\* the outcomes a draw named `name` with range S takes when the draws E are
\* explored: all of S, or the single outcome d of S
Draw(E, name, S, d) == IF name \in E THEN S ELSE {d}

\* random.random() in thousandths: one value below and one above every
\* threshold the program compares it with (0.02, 0.05, 0.1, 0.5, 0.8)
Random == {10, 900}

\* random.randint(a, b), sampled at its ends and around zero
RandInt(a, b) == {a, b} \cup ({-1, 0, 1} \cap (a..b))

\* round(random.uniform(a, b), 2) in cents, sampled at its ends
Uniform(a, b) == {a, b}

\* np.random.choice(index, size): `size` positions drawn with replacement
\* (replace=True is the default), as a vector of positions 1..n
NpChoice(n, size) == [1..size -> 1..n]

\* the results the seeded numpy generator can give at its current position:
\* what the tape recorded at this position, else any result
NpResults(E, name, n, size, d) ==
    IF np_pos < Len(np_tape) THEN {np_tape[np_pos + 1]}
    ELSE Draw(E, name, NpChoice(n, size), [j \in 1..size |-> d])

\* the generator moves on; a specification that starts the program more than
\* once ("replay" in E) records the result for the later runs
NpAdvance(E, picks) ==
    /\ np_tape' = IF "replay" \in E /\ np_pos >= Len(np_tape)
                  THEN Append(np_tape, picks) ELSE np_tape
    /\ np_pos' = np_pos + 1

\* a Faker provider's output: fixed by the provider and the stream position
Faker(kind, pos) == [k |-> kind, v |-> pos]

\* mutant: df.loc[:, col] = value
SetRowsAll(df, picks, col, value) ==
    [j \in 1..Len(df) |-> [df[j] EXCEPT ![col] = value]]

\* df.loc[picks, col] = value
SetRows(df, picks, col, value) ==
    [j \in 1..Len(df) |-> IF j \in Range(picks) THEN [df[j] EXCEPT ![col] = value] ELSE df[j]]

(***************************************************************************)
(* Control                                                                 *)
(***************************************************************************)
\* mutant: the sales generator is called before the date generator
NextGeneratorSwapped(name) ==
    CASE name = "customer" -> "product"
      [] name = "product" -> "sales"
      [] name = "sales" -> "date"
      [] name = "date" -> "quality"
      [] name = "quality" -> "done"

\* the generators in dependency order
NextGenerator(name) ==
    CASE name = "customer" -> "product"
      [] name = "product" -> "date"
      [] name = "date" -> "sales"
      [] name = "sales" -> "quality"
      [] name = "quality" -> "done"

\* where generator `name` returns to.  Under main: the to_csv call that follows
\* it.  Under a direct caller, which passes its own arguments and calls the
\* generators in dependency order up to args.last: the next generator.
Return(name) ==
    IF caller = "main" THEN "csv_" \o name
    ELSE IF name = args.last THEN "done" ELSE NextGenerator(name)

Event(kind, name) == <<kind, name>>

(***************************************************************************)
(* generate_customer_data                                                  *)
(***************************************************************************)
segments == <<"Consumer", "Corporate", "Small Business", "Enterprise">>
regions == <<"North", "South", "East", "West", "Central">>
countries == <<"United States", "Canada", "United Kingdom", "Germany", "France",
               "Spain", "Italy", "Australia", "Japan", "Brazil">>
credit_limits == <<1000, 2000, 5000, 10000, 20000, 50000>>
payments == <<"Credit Card", "Bank Transfer", "PayPal">>

\* one iteration of the loop of lines 22-35
customer_row(E) ==
    /\ pc = "customer"
    /\ Len(rows) < args.num_customers
    /\ \E u \in Draw(E, "CustomerName", Random, 900),
          country \in Draw(E, "Country", Range(countries), countries[1]),
          region \in Draw(E, "Region", Range(regions), regions[1]),
          segment \in Draw(E, "Segment", Range(segments), segments[1]),
          limit \in Draw(E, "CreditLimit", Range(credit_limits), credit_limits[1]),
          payment \in Draw(E, "PreferredPayment", Range(payments), payments[1]) :
          rows' = Append(rows,
                    [CustomerID |-> Len(rows) + 1,
                     CustomerName |-> Faker(IF u > 500 THEN "company" ELSE "name", faker_pos),
                     Country |-> country,
                     Region |-> region,
                     Segment |-> segment,
                     JoinDate |-> Faker("date_between", faker_pos + 1),
                     CreditLimit |-> limit,
                     PreferredPayment |-> payment,
                     Email |-> Faker("email", faker_pos + 2),
                     Phone |-> Faker("phone_number", faker_pos + 3)])
    /\ faker_pos' = faker_pos + 4
    /\ UNCHANGED <<pc, caller, args, order_id, locals, customers_df, products_df, date_df,
                   sales_df, quality_df, events, np_tape, np_pos, run, first_run>>

\* lines 37-39: the frame is built and Email is set to None at 5 drawn rows
customer_null_email(E) ==
    /\ pc = "customer"
    /\ Len(rows) = args.num_customers
    /\ \E picks \in NpResults(E, "EmailRows", Len(rows), 5, 1) :
          /\ customers_df' = SetRows(rows, picks, "Email", None)
          /\ NpAdvance(E, picks)
    /\ rows' = <<>>
    /\ pc' = "customer_phone"
    /\ UNCHANGED <<caller, args, order_id, locals, products_df, date_df, sales_df,
                   quality_df, events, faker_pos, run, first_run>>

\* lines 40-41: Phone is set to None at 5 drawn rows, and the frame is returned
customer_null_phone(E) ==
    /\ pc = "customer_phone"
    /\ \E picks \in NpResults(E, "PhoneRows", Len(customers_df), 5, 1) :
          /\ customers_df' = SetRows(customers_df, picks, "Phone", None)
          /\ NpAdvance(E, picks)
    /\ pc' = Return("customer")
    /\ events' = Append(events, Event("return", "customer"))
    /\ UNCHANGED <<caller, args, rows, order_id, locals, products_df, date_df, sales_df,
                   quality_df, faker_pos, run, first_run>>

(***************************************************************************)
(* generate_product_data                                                   *)
(***************************************************************************)
categories == <<"Electronics", "Furniture", "Office Supplies", "Software", "Hardware">>

subcategories(category) ==
    CASE category = "Electronics" -> <<"Phones", "Laptops", "Tablets", "Monitors", "Accessories">>
      [] category = "Furniture" -> <<"Chairs", "Desks", "Tables", "Storage", "Furnishings">>
      [] category = "Office Supplies" -> <<"Paper", "Binders", "Art", "Supplies", "Labels">>
      [] category = "Software" -> <<"Operating Systems", "Security", "Utilities", "Business", "Design">>
      [] category = "Hardware" -> <<"Processors", "Memory", "Storage", "Peripherals", "Networking">>

\* one iteration of the loop of lines 56-72
product_row(E) ==
    /\ pc = "product"
    /\ Len(rows) < args.num_products
    /\ \E category \in Draw(E, "Category", Range(categories), categories[1]) :
       \E sub \in Draw(E, "SubCategory", Range(subcategories(category)), subcategories(category)[1]),
          price \in Draw(E, "ProductPrice", Uniform(1000, 200000), 1000),
          weight \in Draw(E, "Weight", Uniform(10, 5000), 10),
          stock \in Draw(E, "StockLevel", RandInt(0, 500), 0),
          reorder \in Draw(E, "ReorderPoint", RandInt(10, 100), 10),
          moq \in Draw(E, "MinimumOrderQuantity", RandInt(1, 10), 1),
          factor \in Draw(E, "CostFactor", Uniform(40, 70), 40) :
          rows' = Append(rows,
                    [ProductID |-> Len(rows) + 1,
                     ProductName |-> Faker("catch_phrase", faker_pos),
                     Category |-> category,
                     SubCategory |-> sub,
                     UnitPrice |-> price,
                     Cost |-> Num(RoundDiv(price * factor, 100)),
                     Weight |-> weight,
                     StockLevel |-> stock,
                     ReorderPoint |-> reorder,
                     MinimumOrderQuantity |-> moq])
    /\ faker_pos' = faker_pos + 1
    /\ UNCHANGED <<pc, caller, args, order_id, locals, customers_df, products_df, date_df,
                   sales_df, quality_df, events, np_tape, np_pos, run, first_run>>

\* lines 74-76: the frame is built and UnitPrice is set to 0 at 3 drawn rows
product_zero_price(E) ==
    /\ pc = "product"
    /\ Len(rows) = args.num_products
    /\ \E picks \in NpResults(E, "ZeroPriceRows", Len(rows), 3, 1) :
          /\ products_df' = SetRows(rows, picks, "UnitPrice", 0)
          /\ NpAdvance(E, picks)
    /\ rows' = <<>>
    /\ pc' = "product_cost"
    /\ UNCHANGED <<caller, args, order_id, locals, customers_df, date_df, sales_df,
                   quality_df, events, faker_pos, run, first_run>>

\* lines 77-78: Cost is set to None (nan in the float column) at 3 drawn rows
product_null_cost(E) ==
    /\ pc = "product_cost"
    /\ \E picks \in NpResults(E, "NullCostRows", Len(products_df), 3, Len(products_df)) :
          /\ products_df' = SetRows(products_df, picks, "Cost", NaN)
          /\ NpAdvance(E, picks)
    /\ pc' = Return("product")
    /\ events' = Append(events, Event("return", "product"))
    /\ UNCHANGED <<caller, args, rows, order_id, locals, customers_df, date_df, sales_df,
                   quality_df, faker_pos, run, first_run>>

(***************************************************************************)
(* generate_date_dimension, lines 81-103                                   *)
(***************************************************************************)
generate_date_dimension ==
    /\ pc = "date"
    /\ date_df' = DateDimension(args.start_date, args.end_date)
    /\ pc' = Return("date")
    /\ events' = Append(events, Event("return", "date"))
    /\ UNCHANGED <<caller, args, rows, order_id, locals, customers_df, products_df, sales_df,
                   quality_df, np_tape, np_pos, faker_pos, run, first_run>>

(***************************************************************************)
(* generate_sales_data                                                     *)
(***************************************************************************)
Column(df, col) == [j \in 1..Len(df) |-> df[j][col]]

\* random.choice(seq): every element of a short list, both ends and the
\* second element of a long one
Choice(seq) == IF Len(seq) <= 10 THEN Range(seq) ELSE {seq[1], seq[2], Last(seq)}

\* products_df[products_df['ProductID'] == product_id].iloc[0]
Product(product_id) ==
    products_df[CHOOSE j \in 1..Len(products_df) : products_df[j].ProductID = product_id]

\* mutant: Profit is computed without the test `Cost is not None`, so a None
\* Cost raises TypeError and the except branch sets the three fields to None
DerivedUnchecked(quantity, unit_price, discount, product_cost, u) ==
    LET all_present == ~IsNone(Num(quantity)) /\ ~IsNone(unit_price)
        amount == Sub(Mul(Num(quantity), unit_price), Num(discount))
        cost == IF u > 50 THEN Mul(product_cost, Num(quantity)) ELSE None
        fault == (u > 50 /\ Raises(product_cost, Num(quantity))) \/ Raises(amount, cost)
    IN  IF all_present /\ ~fault
        THEN [SalesAmount |-> amount, Cost |-> cost, Profit |-> Sub(amount, cost)]
        ELSE [SalesAmount |-> None, Cost |-> None, Profit |-> None]

\* lines 137-150: SalesAmount, Cost and Profit of a row; u is the random.random()
\* of line 141.  A TypeError of the arithmetic is caught and gives three None.
Derived(quantity, unit_price, discount, product_cost, u) ==
    LET all_present == ~IsNone(Num(quantity)) /\ ~IsNone(unit_price)
        amount == Sub(Mul(Num(quantity), unit_price), Num(discount))
        cost == IF u > 50 THEN Mul(product_cost, Num(quantity)) ELSE None
        profit == IF ~IsNone(cost) THEN Sub(amount, cost) ELSE None
        fault == u > 50 /\ Raises(product_cost, Num(quantity))
    IN  IF all_present /\ ~fault
        THEN [SalesAmount |-> amount, Cost |-> cost, Profit |-> profit]
        ELSE [SalesAmount |-> None, Cost |-> None, Profit |-> None]

\* line 109
FirstOrderId == 1001

\* mutant: the increment of line 153 is lost
NextOrderIdStuck(id) == id

\* line 153
NextOrderId(id) == id + 1

\* mutant: a discount of up to 0.8 of the unit price
MaxDiscountHigh(price) == RoundDiv(price * 8, 10)

\* line 131: the largest discount, 0.3 of the product's unit price, rounded
MaxDiscount(price) == RoundDiv(price * 3, 10)

\* mutant: random.randint(0, 6)
ShipDateFromZero(order_date, offset) == Num(order_date + offset - 1)

\* line 132: order_date + timedelta(days=offset), from the date that was drawn
ShipDate(order_date, offset) == Num(order_date + offset)

\* lines 108-114
sales_enter ==
    /\ pc = "sales"
    /\ rows' = <<>>
    /\ order_id' = FirstOrderId
    /\ pc' = "sales_loop"
    /\ UNCHANGED <<caller, args, locals, customers_df, products_df, date_df, sales_df,
                   quality_df, events, np_tape, np_pos, faker_pos, run, first_run>>

\* one iteration of the loop of lines 116-153
sales_row(E) ==
    /\ pc = "sales_loop"
    /\ Len(rows) < args.num_transactions
    /\ \E u_error \in Draw(E, "has_error", Random, 900),
          order_date \in Draw(E, "order_date", Choice(Column(date_df, "Date")), date_df[1].Date),
          product_id \in Draw(E, "product_id", Choice(Column(products_df, "ProductID")), Len(products_df)),
          u_date \in Draw(E, "OrderDate", Random, 900),
          u_customer \in Draw(E, "CustomerID", Random, 900),
          customer_id \in Draw(E, "customer_id", Choice(Column(customers_df, "CustomerID")), 1),
          u_price \in Draw(E, "UnitPrice", Random, 900),
          u_discount \in Draw(E, "DiscountAmount", Random, 900),
          offset \in Draw(E, "ShipDate", 1..7, 1),
          ship_mode \in Draw(E, "ShipMode", {"Standard", "Express", "Next Day"}, "Standard"),
          sales_person \in Draw(E, "SalesPersonID", RandInt(1, 10), 1),
          u_cost \in Draw(E, "Cost", Random, 900) :
       LET has_error == u_error < 100
           product == Product(product_id)
       IN  \E quantity \in Draw(E, "Quantity",
                                IF has_error THEN RandInt(-5, 20) ELSE RandInt(1, 10),
                                IF has_error THEN -5 ELSE 1),
              amount \in Draw(E, "discount_amount",
                              Uniform(0, MaxDiscount(product.UnitPrice)),
                              MaxDiscount(product.UnitPrice)) :
           LET unit_price == IF u_price > 20 THEN Num(product.UnitPrice) ELSE None
               discount == IF u_discount > 800 THEN amount ELSE 0
               derived == Derived(quantity, unit_price, discount, product.Cost, u_cost)
           IN  /\ rows' = Append(rows,
                        [SalesOrderID |-> order_id,
                         OrderDate |-> IF u_date > 20 THEN Num(order_date) ELSE None,
                         CustomerID |-> IF u_customer > 20 THEN Num(customer_id) ELSE None,
                         ProductID |-> product_id,
                         Quantity |-> quantity,
                         UnitPrice |-> unit_price,
                         DiscountAmount |-> discount,
                         ShipDate |-> ShipDate(order_date, offset),
                         ShipMode |-> ship_mode,
                         SalesPersonID |-> sales_person,
                         SalesAmount |-> derived.SalesAmount,
                         Cost |-> derived.Cost,
                         Profit |-> derived.Profit])
               /\ locals' = [has_error |-> has_error, order_date |-> order_date,
                             product_id |-> product_id]
    /\ order_id' = NextOrderId(order_id)
    /\ UNCHANGED <<pc, caller, args, customers_df, products_df, date_df, sales_df,
                   quality_df, events, np_tape, np_pos, faker_pos, run, first_run>>

\* line 155
sales_return ==
    /\ pc = "sales_loop"
    /\ Len(rows) = args.num_transactions
    /\ sales_df' = rows
    /\ rows' = <<>>
    /\ pc' = Return("sales")
    /\ events' = Append(events, Event("return", "sales"))
    /\ UNCHANGED <<caller, args, order_id, locals, customers_df, products_df, date_df,
                   quality_df, np_tape, np_pos, faker_pos, run, first_run>>

(***************************************************************************)
(* generate_quality_metrics                                                *)
(***************************************************************************)
\* mutant: the rows of a day are selected by ShipDate
OnDayShipped(row, day) == ~IsNull(row.ShipDate) /\ row.ShipDate.v = day

\* sales_df['OrderDate'].dt.date == date.date(): NaT equals no date
OnDay(row, day) == ~IsNull(row.OrderDate) /\ row.OrderDate.v = day

\* row.isnull().any()
AnyNull(row) ==
    \E col \in {"OrderDate", "CustomerID", "UnitPrice", "ShipDate", "SalesAmount", "Cost", "Profit"} :
        IsNull(row[col])

\* row['Quantity'] <= 0
InvalidQuantity(row) == row.Quantity <= 0

\* mutant: a missing SalesAmount is compared as 0 (fillna(0))
HighDiscountFilled(row) ==
    2 * row.DiscountAmount > (IF IsNull(row.SalesAmount) THEN 0 ELSE row.SalesAmount.v)

\* row['DiscountAmount'] > row['SalesAmount'] * 0.5: a comparison with a
\* missing SalesAmount is False
HighDiscount(row) == ~IsNull(row.SalesAmount) /\ 2 * row.DiscountAmount > row.SalesAmount.v

Count(df, Test(_)) == Cardinality({j \in 1..Len(df) : Test(df[j])})

\* lines 166-173 for one day; score is the random.uniform(0.9, 1.0) of line 172
Metric(df, day, score) ==
    LET Daily(row) == OnDay(row, day)
        Missing(row) == OnDay(row, day) /\ AnyNull(row)
        Invalid(row) == OnDay(row, day) /\ InvalidQuantity(row)
        High(row) == OnDay(row, day) /\ HighDiscount(row)
    IN  [Date |-> day,
         TotalRecords |-> Count(df, Daily),
         MissingData |-> Count(df, Missing),
         InvalidQuantities |-> Count(df, Invalid),
         HighDiscounts |-> Count(df, High),
         DataQualityScore |-> score]

\* the scores of one call, in thousandths, sampled: all low, all high, or the
\* first day high and the others low
Scores(n) == {[j \in 1..n |-> 900], [j \in 1..n |-> 1000],
              [j \in 1..n |-> IF j = 1 THEN 1000 ELSE 900]}

\* sales_df['OrderDate'].dt exists only for a datetime column: a frame without
\* rows has no OrderDate column (KeyError), and a column holding None only is of
\* dtype object (AttributeError)
HasDatetimeColumn(df) == \E j \in 1..Len(df) : ~IsNull(df[j].OrderDate)

\* lines 158-176
generate_quality_metrics(E) ==
    /\ pc = "quality"
    /\ IF HasDatetimeColumn(sales_df)
       THEN LET dates == date_range(DefaultStart, DefaultEnd)
            IN  /\ \E scores \in Draw(E, "DataQualityScore", Scores(Len(dates)),
                                      [j \in 1..Len(dates) |-> 900]) :
                       quality_df' = [j \in 1..Len(dates) |-> Metric(sales_df, dates[j], scores[j])]
                /\ pc' = Return("quality")
                /\ events' = Append(events, Event("return", "quality"))
       ELSE /\ pc' = "raised"
            /\ UNCHANGED <<quality_df, events>>
    /\ UNCHANGED <<caller, args, rows, order_id, locals, customers_df, products_df, date_df,
                   sales_df, np_tape, np_pos, faker_pos, run, first_run>>

(***************************************************************************)
(* main, lines 179-207                                                     *)
(***************************************************************************)
FileOf(name) ==
    CASE name = "customer" -> "dim_customer.csv"
      [] name = "product" -> "dim_product.csv"
      [] name = "date" -> "dim_date.csv"
      [] name = "sales" -> "fact_sales.csv"
      [] name = "quality" -> "data_quality_metrics.csv"

Generators == {"customer", "product", "date", "sales", "quality"}

\* line 182: main calls the first generator
main_start ==
    /\ pc = "main"
    /\ pc' = "customer"
    /\ events' = Append(events, Event("call", "customer"))
    /\ UNCHANGED <<caller, args, rows, order_id, locals, customers_df, products_df, date_df,
                   sales_df, quality_df, np_tape, np_pos, faker_pos, run, first_run>>

\* lines 183, 187, 191, 195: the table just returned is written, and the next
\* generator is called
to_csv ==
    /\ \E name \in Generators \ {"quality"} :
          /\ pc = "csv_" \o name
          /\ pc' = NextGenerator(name)
          /\ events' = events \o <<Event("write", FileOf(name)),
                                   Event("call", NextGenerator(name))>>
    /\ UNCHANGED <<caller, args, rows, order_id, locals, customers_df, products_df, date_df,
                   sales_df, quality_df, np_tape, np_pos, faker_pos, run, first_run>>

\* lines 199-207: the last table is written and the summary is printed
main_finish ==
    /\ pc = "csv_quality"
    /\ pc' = "done"
    /\ events' = events \o <<Event("write", FileOf("quality")), Event("print", "summary")>>
    /\ UNCHANGED <<caller, args, rows, order_id, locals, customers_df, products_df, date_df,
                   sales_df, quality_df, np_tape, np_pos, faker_pos, run, first_run>>

\* the five tables of a run
Tables == <<customers_df, products_df, date_df, sales_df, quality_df>>

\* the program is started again: Faker and numpy are seeded as before (lines
\* 10-11), `random` is not seeded
restart ==
    /\ pc = "done"
    /\ caller = "main"
    /\ run = 1
    /\ run' = 2
    /\ first_run' = Tables
    /\ pc' = "main"
    /\ np_pos' = 0
    /\ faker_pos' = 0
    /\ rows' = <<>>
    /\ order_id' = 0
    /\ locals' = [has_error |-> FALSE, order_date |-> 0, product_id |-> 0]
    /\ customers_df' = <<>>
    /\ products_df' = <<>>
    /\ date_df' = <<>>
    /\ sales_df' = <<>>
    /\ quality_df' = <<>>
    /\ events' = <<>>
    /\ UNCHANGED <<caller, args, np_tape>>

(***************************************************************************)
(* Specifications                                                          *)
(***************************************************************************)
Args(customers, products, start, end, transactions, last) ==
    [num_customers |-> customers, num_products |-> products,
     start_date |-> start, end_date |-> end,
     num_transactions |-> transactions, last |-> last]

\* the state in which `who` is about to execute `where` with arguments a
Start(who, where, a) ==
    /\ pc = where
    /\ caller = who
    /\ args = a
    /\ rows = <<>>
    /\ order_id = 0
    /\ locals = [has_error |-> FALSE, order_date |-> 0, product_id |-> 0]
    /\ customers_df = <<>>
    /\ products_df = <<>>
    /\ date_df = <<>>
    /\ sales_df = <<>>
    /\ quality_df = <<>>
    /\ events = <<>>
    /\ np_tape = <<>>
    /\ np_pos = 0
    /\ faker_pos = 0
    /\ run = 1
    /\ first_run = <<>>

\* the first days of the ranges generate_date_dimension is called with:
\* around the end of a month, of a year, of the fiscal year, and of February
\* in leap and in common years
StartDates ==
    {Ymd2Ord(2022, 1, 1), Ymd2Ord(2021, 12, 29), Ymd2Ord(2022, 6, 28),
     Ymd2Ord(2023, 2, 26), Ymd2Ord(2024, 2, 26), Ymd2Ord(2024, 12, 28),
     Ymd2Ord(2000, 2, 27), Ymd2Ord(1900, 2, 26), Ymd2Ord(2023, 9, 28),
     Ymd2Ord(2100, 2, 25)}

\* ---- main(), with the row counts as parameters: the draws that decide
\* ---- OrderDate
MainDraws == {"order_date", "OrderDate"}

Init ==
    \E t \in 0..MaxTransactions :
        Start("main", "main",
              Args(MaxCustomers, MaxProducts, DefaultStart, DefaultEnd, t, "quality"))

Next ==
    \/ main_start
    \/ customer_row(MainDraws)
    \/ customer_null_email(MainDraws)
    \/ customer_null_phone(MainDraws)
    \/ product_row(MainDraws)
    \/ product_zero_price(MainDraws)
    \/ product_null_cost(MainDraws)
    \/ generate_date_dimension
    \/ sales_enter
    \/ sales_row(MainDraws)
    \/ sales_return
    \/ generate_quality_metrics(MainDraws)
    \/ to_csv
    \/ main_finish

Spec == Init /\ [][Next]_vars

\* ---- generate_customer_data(n), every result of np.random.choice
CustDraws == {"EmailRows", "PhoneRows"}

InitCust ==
    \E n \in 1..MaxCustomers :
        Start("call", "customer", Args(n, 0, DefaultStart, DefaultEnd, 0, "customer"))

NextCust ==
    \/ customer_row(CustDraws)
    \/ customer_null_email(CustDraws)
    \/ customer_null_phone(CustDraws)

SpecCust == InitCust /\ [][NextCust]_vars

\* ---- generate_date_dimension(start, end)
InitDate ==
    \E start \in StartDates : \E end \in start..(start + MaxSpan) :
        Start("call", "date", Args(0, 0, start, end, 0, "date"))

NextDate == generate_date_dimension

SpecDate == InitDate /\ [][NextDate]_vars

\* ---- the generators up to generate_sales_data, called with a two-day date
\* ---- dimension: the draws that decide the defects of a row
DerivedDraws == {"has_error", "product_id", "OrderDate", "CustomerID", "UnitPrice", "Cost"}

InitSales ==
    \E t \in 0..MaxTransactions :
        Start("call", "customer",
              Args(1, MaxProducts, DefaultStart, DefaultStart + 1, t, "sales"))

NextDerived ==
    \/ customer_row(DerivedDraws)
    \/ customer_null_email(DerivedDraws)
    \/ customer_null_phone(DerivedDraws)
    \/ product_row(DerivedDraws)
    \/ product_zero_price(DerivedDraws)
    \/ product_null_cost(DerivedDraws)
    \/ generate_date_dimension
    \/ sales_enter
    \/ sales_row(DerivedDraws)
    \/ sales_return

SpecDerived == InitSales /\ [][NextDerived]_vars

\* ---- the same calls: the draws that decide OrderDate and ShipDate
ShipDraws == {"order_date", "OrderDate", "ShipDate"}

NextShip ==
    \/ customer_row(ShipDraws)
    \/ customer_null_email(ShipDraws)
    \/ customer_null_phone(ShipDraws)
    \/ product_row(ShipDraws)
    \/ product_zero_price(ShipDraws)
    \/ product_null_cost(ShipDraws)
    \/ generate_date_dimension
    \/ sales_enter
    \/ sales_row(ShipDraws)
    \/ sales_return

SpecShip == InitSales /\ [][NextShip]_vars

\* ---- the generators up to generate_quality_metrics, called with a one-day
\* ---- date dimension: the draws that decide Quantity, UnitPrice and
\* ---- DiscountAmount
MaxMetricRows == 1

DiscountDraws == {"has_error", "Quantity", "product_id", "DiscountAmount"}

InitDiscount ==
    \E t \in 0..MaxMetricRows :
        Start("call", "customer",
              Args(1, MaxProducts, DefaultStart, DefaultStart, t, "quality"))

NextDiscount ==
    \/ customer_row(DiscountDraws)
    \/ customer_null_email(DiscountDraws)
    \/ customer_null_phone(DiscountDraws)
    \/ product_row(DiscountDraws)
    \/ product_zero_price(DiscountDraws)
    \/ product_null_cost(DiscountDraws)
    \/ generate_date_dimension
    \/ sales_enter
    \/ sales_row(DiscountDraws)
    \/ sales_return
    \/ generate_quality_metrics(DiscountDraws)

SpecDiscount == InitDiscount /\ [][NextDiscount]_vars

\* ---- the same calls: the draws that decide a null SalesAmount
NullDraws == {"has_error", "UnitPrice", "DiscountAmount"}

InitNull ==
    \E t \in 0..MaxTransactions :
        Start("call", "customer",
              Args(1, MaxProducts, DefaultStart, DefaultStart, t, "quality"))

NextNull ==
    \/ customer_row(NullDraws)
    \/ customer_null_email(NullDraws)
    \/ customer_null_phone(NullDraws)
    \/ product_row(NullDraws)
    \/ product_zero_price(NullDraws)
    \/ product_null_cost(NullDraws)
    \/ generate_date_dimension
    \/ sales_enter
    \/ sales_row(NullDraws)
    \/ sales_return
    \/ generate_quality_metrics(NullDraws)

SpecNull == InitNull /\ [][NextNull]_vars

\* ---- main() run twice, each run with RunRows customers and transactions
RunRows == 1

RunDraws == {"replay", "ZeroPriceRows", "CustomerName", "has_error"}

InitRuns ==
    Start("main", "main",
          Args(RunRows, MaxProducts, DefaultStart, DefaultEnd, RunRows, "quality"))

NextRuns ==
    \/ main_start
    \/ customer_row(RunDraws)
    \/ customer_null_email(RunDraws)
    \/ customer_null_phone(RunDraws)
    \/ product_row(RunDraws)
    \/ product_zero_price(RunDraws)
    \/ product_null_cost(RunDraws)
    \/ generate_date_dimension
    \/ sales_enter
    \/ sales_row(RunDraws)
    \/ sales_return
    \/ generate_quality_metrics(RunDraws)
    \/ to_csv
    \/ main_finish
    \/ restart

SpecRuns == InitRuns /\ [][NextRuns]_vars

(***************************************************************************)
(* Properties                                                              *)
(***************************************************************************)
Returned(name) == \E i \in 1..Len(events) : events[i] = <<"return", name>>

NullRows(df, col) == {j \in 1..Len(df) : df[j][col].k \in {"None", "NaN"}}

\* the rows of generate_sales_data, under construction or returned
SalesRows == IF pc = "sales_loop" THEN rows ELSE sales_df

\* C1: two runs of main from the same seeding and the same row counts give
\* the same five tables
C1_Deterministic == (run = 2 /\ pc = "done") => Tables = first_run

\* C2 as stated: for N >= 5 the returned customer table has exactly 5 rows
\* with a null Email and exactly 5 rows with a null Phone
C2_ExactlyFive ==
    (pc = "done" /\ args.num_customers >= 5) =>
        /\ Cardinality(NullRows(customers_df, "Email")) = 5
        /\ Cardinality(NullRows(customers_df, "Phone")) = 5

\* C2 as amended: for N >= 1 the returned customer table has at least 1 and at
\* most 5 rows with a null Email, and at least 1 and at most 5 rows with a null
\* Phone (5 positions are drawn with replacement for each column)
C2_AtMostFive ==
    pc = "done" =>
        /\ Cardinality(NullRows(customers_df, "Email")) \in 1..5
        /\ Cardinality(NullRows(customers_df, "Phone")) \in 1..5
        /\ Len(customers_df) = args.num_customers

C2_Witness ==
    /\ pc = "done"
    /\ args.num_customers >= 5
    /\ Cardinality(NullRows(customers_df, "Email")) < 5
    /\ Cardinality(NullRows(customers_df, "Phone")) = 5

\* C3: the k-th row of generate_sales_data (k from 0) has SalesOrderID 1001 + k,
\* whatever defects the row received, and the table has num_transactions rows
C3_OrderIds ==
    /\ \A j \in 1..Len(SalesRows) : SalesRows[j].SalesOrderID = 1001 + (j - 1)
    /\ Returned("sales") => Len(sales_df) = args.num_transactions

C3_Witness ==
    /\ Returned("sales")
    /\ Len(sales_df) >= 2
    /\ \E j \in 1..Len(sales_df) : sales_df[j].OrderDate.k = "None"
    /\ \E j \in 1..Len(sales_df) : sales_df[j].CustomerID.k = "None"
    /\ \E j \in 1..Len(sales_df) : sales_df[j].SalesAmount.k = "None"
    /\ \E j \in 1..Len(sales_df) : sales_df[j].Cost.k = "NaN"
    /\ \E j \in 1..Len(sales_df) : sales_df[j].Quantity <= 0

\* C4: in every sales row, a null UnitPrice (Quantity is never null) gives null
\* SalesAmount, Cost and Profit; otherwise SalesAmount = Quantity * UnitPrice -
\* DiscountAmount, Cost is null or the product's Cost * Quantity, and Profit is
\* SalesAmount - Cost when Cost is not null and null when Cost is null
C4_DerivedFields ==
    pc \in {"sales_loop", "done"} =>
        \A j \in 1..Len(SalesRows) :
            LET r == SalesRows[j]
                product == products_df[r.ProductID]
            IN  IF r.UnitPrice.k # "num"
                THEN r.SalesAmount.k = "None" /\ r.Cost.k = "None" /\ r.Profit.k = "None"
                ELSE /\ r.SalesAmount = [k |-> "num", v |-> r.Quantity * r.UnitPrice.v - r.DiscountAmount]
                     /\ \/ r.Cost.k # "num"
                        \/ product.Cost.k = "num" /\ r.Cost.v = product.Cost.v * r.Quantity
                     /\ product.Cost.k # "num" => r.Cost.k # "num"
                     /\ IF r.Cost.k = "num"
                        THEN r.Profit = [k |-> "num", v |-> r.SalesAmount.v - r.Cost.v]
                        ELSE r.Profit.k # "num"

C4_Witness ==
    /\ pc = "done"
    /\ \E j \in 1..Len(sales_df) :
          /\ sales_df[j].UnitPrice.k = "num"
          /\ sales_df[j].DiscountAmount > 0
          /\ sales_df[j].Cost.k = "NaN"
          /\ sales_df[j].Profit.k = "NaN"
    /\ \E j \in 1..Len(sales_df) :
          sales_df[j].UnitPrice.k = "None" /\ sales_df[j].SalesAmount.k = "None"

\* the sum of TotalRecords over the rows lo..hi
RECURSIVE SumTotalRecords(_, _, _)
SumTotalRecords(df, lo, hi) ==
    IF lo > hi THEN 0
    ELSE IF lo = hi THEN df[lo].TotalRecords
    ELSE LET mid == (lo + hi) \div 2
         IN  SumTotalRecords(df, lo, mid) + SumTotalRecords(df, mid + 1, hi)

C6_DateDimension ==
    pc = "done" =>
        /\ Len(date_df) = args.end_date - args.start_date + 1
        /\ \A j \in 1..Len(date_df) :
              LET r == date_df[j]
              IN  /\ r.Date = args.start_date + j - 1
                  /\ Ymd2Ord(r.Year, r.Month, r.DateKey % 100) = r.Date
                  /\ r.DateKey = r.Year * 10000 + r.Month * 100 + (r.DateKey % 100)
                  /\ r.FiscalYear = (IF r.Month < 7 THEN r.Year ELSE r.Year + 1)
                  /\ r.IsWeekend \in {0, 1}
                  /\ r.IsWeekend = 1 <=> r.WeekDay \in {6, 7}
                  /\ r.WeekDay = ((r.Date + 6) % 7) + 1
        /\ \A j \in 1..(Len(date_df) - 1) : date_df[j].DateKey < date_df[j + 1].DateKey

C6_Witness ==
    /\ pc = "done"
    /\ \E j \in 1..(Len(date_df) - 1) :
          /\ date_df[j].Month = 6
          /\ date_df[j + 1].Month = 7
          /\ date_df[j].FiscalYear < date_df[j + 1].FiscalYear
    /\ \E j \in 1..Len(date_df) : date_df[j].IsWeekend = 1
    /\ \E j \in 1..Len(date_df) : date_df[j].IsWeekend = 0

\* what main does, from first to last
MainTrace ==
    <<<<"call", "customer">>, <<"return", "customer">>, <<"write", "dim_customer.csv">>,
      <<"call", "product">>, <<"return", "product">>, <<"write", "dim_product.csv">>,
      <<"call", "date">>, <<"return", "date">>, <<"write", "dim_date.csv">>,
      <<"call", "sales">>, <<"return", "sales">>, <<"write", "fact_sales.csv">>,
      <<"call", "quality">>, <<"return", "quality">>, <<"write", "data_quality_metrics.csv">>,
      <<"print", "summary">>>>

\* C7 as stated: no table is written before generate_quality_metrics has returned
C7_WritesAfterAllGenerators ==
    \A i \in 1..Len(events) :
        events[i][1] = "write" => \E j \in 1..(i - 1) : events[j] = <<"return", "quality">>

\* C7 as amended: main calls the customer, product, date, sales and quality
\* generators in this order, each once, and writes each table right after its
\* own generator has returned and before the next generator is called
C7_Pipeline ==
    /\ Len(events) <= Len(MainTrace)
    /\ events = SubSeq(MainTrace, 1, Len(events))
    /\ pc = "done" => events = MainTrace

C7_Witness ==
    /\ pc = "done"
    /\ Len(sales_df) = MaxTransactions
    /\ \E i \in 1..Len(events) : events[i] = <<"write", "fact_sales.csv">>

\* C8: in every sales row ShipDate is not null and is the date drawn from the
\* date dimension plus 1 to 7 days, also when OrderDate was replaced by null;
\* with a non-null OrderDate, OrderDate < ShipDate <= OrderDate + 7 days
C8_ShipDate ==
    pc \in {"sales_loop", "done"} =>
        /\ \A j \in 1..Len(SalesRows) :
              LET r == SalesRows[j]
              IN  /\ r.ShipDate.k = "num"
                  /\ \E i \in 1..Len(date_df) : r.ShipDate.v - date_df[i].Date \in 1..7
                  /\ r.OrderDate.k = "num" =>
                        r.OrderDate.v < r.ShipDate.v /\ r.ShipDate.v <= r.OrderDate.v + 7
        /\ (pc = "sales_loop" /\ rows # <<>>) =>
              /\ rows[Len(rows)].ShipDate.v - locals.order_date \in 1..7
              /\ \E i \in 1..Len(date_df) : date_df[i].Date = locals.order_date

C8_Witness ==
    /\ pc = "sales_loop"
    /\ Len(rows) = 2
    /\ rows[2].OrderDate.k = "None"
    /\ rows[2].ShipDate.v = locals.order_date + 7
    /\ rows[1].OrderDate.k = "num"
    /\ rows[1].ShipDate.v = rows[1].OrderDate.v + 1

\* C9: HighDiscounts of a day counts exactly the sales rows of that day whose
\* SalesAmount is not null and whose DiscountAmount is greater than half of it;
\* a null SalesAmount is never counted and never makes the computation fail
C9_HighDiscounts ==
    /\ Returned("quality") =>
          \A j \in 1..Len(quality_df) :
              quality_df[j].HighDiscounts =
                  Cardinality({i \in 1..Len(sales_df) :
                      /\ sales_df[i].OrderDate = [k |-> "num", v |-> quality_df[j].Date]
                      /\ sales_df[i].SalesAmount.k = "num"
                      /\ 2 * sales_df[i].DiscountAmount > sales_df[i].SalesAmount.v})
    /\ pc = "raised" => \A i \in 1..Len(sales_df) : sales_df[i].OrderDate.k # "num"

C9_Witness ==
    /\ Returned("quality")
    /\ \E j \in 1..Len(quality_df) :
          /\ quality_df[j].TotalRecords = 2
          /\ quality_df[j].MissingData >= 1
          /\ quality_df[j].HighDiscounts = 1
    /\ \E i \in 1..Len(sales_df) :
          sales_df[i].SalesAmount.k = "None" /\ sales_df[i].OrderDate.k = "num"

\* C10: no sales row with Quantity >= 1 has DiscountAmount > SalesAmount / 2, a
\* row with negative Quantity and positive UnitPrice has (also with a zero
\* DiscountAmount), so every day has HighDiscounts <= InvalidQuantities <=
\* TotalRecords
C10_HighDiscountsAreInvalid ==
    /\ pc \in {"sales_loop", "quality", "done", "raised"} =>
          \A i \in 1..Len(SalesRows) :
              LET r == SalesRows[i]
                  high == r.SalesAmount.k = "num" /\ 2 * r.DiscountAmount > r.SalesAmount.v
              IN  /\ r.Quantity >= 1 => ~high
                  /\ (r.Quantity < 0 /\ r.UnitPrice.k = "num" /\ r.UnitPrice.v > 0) => high
    /\ Returned("quality") =>
          \A j \in 1..Len(quality_df) :
              /\ quality_df[j].HighDiscounts <= quality_df[j].InvalidQuantities
              /\ quality_df[j].InvalidQuantities <= quality_df[j].TotalRecords

C10_Witness ==
    /\ Returned("quality")
    /\ \E i \in 1..Len(sales_df) :
          /\ sales_df[i].Quantity < 0
          /\ sales_df[i].DiscountAmount = 0
          /\ sales_df[i].UnitPrice.v > 0
    /\ \E j \in 1..Len(quality_df) :
          /\ quality_df[j].HighDiscounts = 1
          /\ quality_df[j].InvalidQuantities = 1
          /\ quality_df[j].TotalRecords = 1

====
